---- MODULE Spec2Model ----
(***************************************************************************)
(* Model of ZoomMeetingFrame (spot-tv meeting frame for Zoom meetings):    *)
(* the component's lifecycle (componentDidMount / componentWillUnmount),   *)
(* its remote-command handler (_onMeetingCommand), its provider-event      *)
(* handler (_onMeetingUpdateReceived) and its health-check error handler   *)
(* (_onApiHealthCheckError).                                               *)
(*                                                                         *)
(* Every handler is a straight-line piece of code that reads only its      *)
(* arguments and the props; it is modelled as the sequence of calls it     *)
(* makes on its collaborators (an "effect list"), in program order.  One   *)
(* interpreter (Run) applies an effect list to the state, so that each     *)
(* action is the whole handler.                                            *)
(*                                                                         *)
(* JavaScript values that travel through a handler untouched (mute flags   *)
(* of a command, the password payload, error codes) are strings; the       *)
(* string "undefined" is the JavaScript value undefined.                   *)
(***************************************************************************)
EXTENDS Integers, Sequences, FiniteSets, TLC

VARIABLES
    phase,          \* "constructed" | "mounted" | "unmounted" (React lifecycle)
    zoomIframeManager, \* this._zoomIframeManager: "null" | "created" | "loaded" | "destroyed"
    zoomApiHealthCheck, \* this._zoomApiHealthCheck: "undefined" | "notStarted" | "running" | "stopped"
    subscribed,     \* _onMeetingCommand is a listener of CLIENT_MESSAGE_RECEIVED
    spotTvState,    \* the session state written through props.updateSpotTvState
    last,           \* the handler that ran last and its arguments
    trace,          \* the calls the last handler made, in program order
    threw,          \* the last handler ended with a TypeError
    leaveCount,     \* calls of props.onMeetingLeave since construction
    healthErrorCount \* runs of _onApiHealthCheckError since construction

vars == <<phase, zoomIframeManager, zoomApiHealthCheck, subscribed,
          spotTvState, last, trace, threw, leaveCount, healthErrorCount>>

----------------------------------------------------------------------------
(* Bounds *)

\* props.onMeetingLeave is counted up to this many calls
MaxLeaves == 2

\* failures of the health check are counted up to this many reports
MaxHealthErrors == 2

----------------------------------------------------------------------------
(* Props (configuration inputs) *)

meetingUrl == "https://provider.example/my-room"
meetingDisplayName == "My Room"
displayName == "Lobby"

\* parseMeetingUrl(url).meetingName: the last path segment of the url
parseMeetingName(url) ==
    IF url = "https://provider.example/my-room" THEN "my-room" ELSE "undefined"

----------------------------------------------------------------------------
(* Constants of common/remote-control and common/zoom, kept symbolic *)

HANG_UP == "hangUp"
SET_AUDIO_MUTE == "setAudioMute"
SET_VIDEO_MUTE == "setVideoMute"
SUBMIT_PASSWORD == "submitPassword"
OTHER_COMMAND == "otherCommand"

AUDIO_MUTE_UPDATED == "audio-mute-updated"
MEETING_ENDED == "meeting-ended"
MEETING_JOIN_FAILED == "meeting-join-failed"
MEETING_JOIN_SUCCEEDED == "meeting-join-succeeded"
READY == "ready"
VIDEO_MUTE_UPDATED == "video-mute-updated"
OTHER_EVENT == "other-event"

FAIL == "FAIL"
ERROR_NOT_EXIST == "ERROR_NOT_EXIST"
MEETING_NOT_START == "MEETING_NOT_START"
WRONG_MEETING_PASSWORD == "WRONG_MEETING_PASSWORD"
OTHER_CODE == "OTHER_CODE"

----------------------------------------------------------------------------
(* Session state *)

\* the object componentWillUnmount writes
DefaultSpotTvState ==
    [audioMuted |-> FALSE, inMeeting |-> "", kicked |-> FALSE,
     meetingDisplayName |-> "", needPassword |-> FALSE, videoMuted |-> FALSE]

\* An argument of updateSpotTvState: the fields it carries and their values
\* (the values of the fields it does not carry are those of the default and
\* are never read).
Patch(fields, values) ==
    [fields |-> fields,
     values |-> [f \in DOMAIN DefaultSpotTvState |->
                    IF f \in fields THEN values[f] ELSE DefaultSpotTvState[f]]]

NoPatch == Patch({}, DefaultSpotTvState)

\* setSpotTVState: a merge of the patch into the record
ApplyPatch(state, patch) ==
    [f \in DOMAIN state |->
        IF f \in patch.fields THEN patch.values[f] ELSE state[f]]

----------------------------------------------------------------------------
(* Effects: one call made by a handler *)

\* the argument of onMeetingLeave; {} is EmptyPayload
EmptyPayload == [errorCode |-> "undefined", error |-> "undefined"]

Effect(op, patch, payload, args) ==
    [op |-> op, patch |-> patch, payload |-> payload, args |-> args]

Call(op, args) == Effect(op, NoPatch, EmptyPayload, args)
UpdateSpotTvState(patch) == Effect("updateSpotTvState", patch, EmptyPayload, <<>>)
OnMeetingLeave(payload) == Effect("onMeetingLeave", NoPatch, payload, <<>>)
OnMeetingStart == Call("onMeetingStart", <<>>)

\* the result of a handler: its calls, and whether it ended by throwing
Result(effects, throws) == [effects |-> effects, throws |-> throws]

----------------------------------------------------------------------------
(* Arguments of the handlers *)

\* the data of a remote command; defined = FALSE is a command without data
CommandData(defined, skipFeedback, mute, password) ==
    [defined |-> defined, skipFeedback |-> skipFeedback, mute |-> mute,
     password |-> password]

NoCommandData == CommandData(FALSE, "undefined", "undefined", "undefined")

\* the data of a provider event; hasError is "data.error is an object"
EventData(defined, hasError, code, muted) ==
    [defined |-> defined, hasError |-> hasError, code |-> code, muted |-> muted]

NoEventData == EventData(FALSE, FALSE, "undefined", FALSE)

\* JavaScript truthiness of the values a flag takes here
Truthy(v) == v \notin {"false", "undefined", ""}

----------------------------------------------------------------------------
(* _onApiHealthCheckError *)

\* _onApiHealthCheckError that hands its reason on as the error
ApiHealthCheckErrorResult_ReportsReason ==
    Result(<<OnMeetingLeave([errorCode |-> "undefined", error |-> "reason"])>>, FALSE)

\* _onApiHealthCheckError: logs the reason, then onMeetingLeave({})
ApiHealthCheckErrorResult ==
    Result(<<OnMeetingLeave(EmptyPayload)>>, FALSE)

----------------------------------------------------------------------------
(* _onMeetingCommand *)

\* HANG_UP that asks the iFrame manager to hang up before it looks at
\* skipFeedback
HangUpResult_HangsUpFirst(data) ==
    IF ~data.defined THEN Result(<<>>, TRUE)
    ELSE IF Truthy(data.skipFeedback)
         THEN Result(<<Call("hangUp", <<>>), OnMeetingLeave(EmptyPayload)>>, FALSE)
         ELSE Result(<<Call("hangUp", <<>>)>>, FALSE)

\* case COMMANDS.HANG_UP; data.skipFeedback of an undefined data is a TypeError
HangUpResult(data) ==
    IF ~data.defined THEN Result(<<>>, TRUE)
    ELSE IF Truthy(data.skipFeedback)
         THEN Result(<<OnMeetingLeave(EmptyPayload)>>, FALSE)
         ELSE Result(<<Call("hangUp", <<>>)>>, FALSE)

\* SET_AUDIO_MUTE that also writes the requested value to the session state
SetAudioMuteResult_Optimistic(data) ==
    IF ~data.defined THEN Result(<<>>, TRUE)
    ELSE Result(<<UpdateSpotTvState(Patch({"audioMuted"},
                                          [audioMuted |-> Truthy(data.mute)])),
                  Call("setAudioMute", <<data.mute>>)>>, FALSE)

\* case COMMANDS.SET_AUDIO_MUTE
SetAudioMuteResult(data) ==
    IF ~data.defined THEN Result(<<>>, TRUE)
    ELSE Result(<<Call("setAudioMute", <<data.mute>>)>>, FALSE)

\* case COMMANDS.SET_VIDEO_MUTE
SetVideoMuteResult(data) ==
    IF ~data.defined THEN Result(<<>>, TRUE)
    ELSE Result(<<Call("setVideoMute", <<data.mute>>)>>, FALSE)

\* SUBMIT_PASSWORD that forwards the password before it clears needPassword
SubmitPasswordResult_ForwardsFirst(data) ==
    Result(<<Call("submitPassword", <<data.password>>),
             UpdateSpotTvState(Patch({"needPassword"}, [needPassword |-> FALSE]))>>,
           FALSE)

\* case COMMANDS.SUBMIT_PASSWORD; data is passed on as it came
SubmitPasswordResult(data) ==
    Result(<<UpdateSpotTvState(Patch({"needPassword"}, [needPassword |-> FALSE])),
             Call("submitPassword", <<data.password>>)>>, FALSE)

\* the switch with a default that hangs up
MeetingCommandResult_DefaultHangsUp(type, data) ==
    CASE type = HANG_UP -> HangUpResult(data)
      [] type = SET_AUDIO_MUTE -> SetAudioMuteResult(data)
      [] type = SET_VIDEO_MUTE -> SetVideoMuteResult(data)
      [] type = SUBMIT_PASSWORD -> SubmitPasswordResult(data)
      [] OTHER -> Result(<<Call("hangUp", <<>>)>>, FALSE)

\* the switch of _onMeetingCommand
MeetingCommandResult(type, data) ==
    CASE type = HANG_UP -> HangUpResult(data)
      [] type = SET_AUDIO_MUTE -> SetAudioMuteResult(data)
      [] type = SET_VIDEO_MUTE -> SetVideoMuteResult(data)
      [] type = SUBMIT_PASSWORD -> SubmitPasswordResult(data)
      [] OTHER -> Result(<<>>, FALSE)

----------------------------------------------------------------------------
(* _onMeetingUpdateReceived *)

\* data?.error?.code
zoomErrorCode(data) ==
    IF data.defined /\ data.hasError THEN data.code ELSE "undefined"

\* the if-chain without its wrong-password branch
JoinFailedEffects_NoPasswordBranch(code) ==
    IF code = FAIL \/ code = ERROR_NOT_EXIST
    THEN <<OnMeetingLeave([errorCode |-> "meeting-not-found",
                           error |-> "appEvents.meetingDoesNotExist"])>>
    ELSE IF code = MEETING_NOT_START
    THEN <<OnMeetingLeave([errorCode |-> "meeting-not-started",
                           error |-> "appEvents.meetingNotStarted"])>>
    ELSE <<OnMeetingLeave([errorCode |-> "failed-to-join",
                           error |-> "appEvents.meetingJoinFailed"])>>

\* the if-chain without its final else
JoinFailedEffects_SilentOnUnknown(code) ==
    IF code = FAIL \/ code = ERROR_NOT_EXIST
    THEN <<OnMeetingLeave([errorCode |-> "meeting-not-found",
                           error |-> "appEvents.meetingDoesNotExist"])>>
    ELSE IF code = MEETING_NOT_START
    THEN <<OnMeetingLeave([errorCode |-> "meeting-not-started",
                           error |-> "appEvents.meetingNotStarted"])>>
    ELSE IF code = WRONG_MEETING_PASSWORD
    THEN <<UpdateSpotTvState(Patch({"needPassword"}, [needPassword |-> TRUE]))>>
    ELSE <<>>

\* the if-chain whose first test knows FAIL only
JoinFailedEffects_NotExistUnclassified(code) ==
    IF code = FAIL
    THEN <<OnMeetingLeave([errorCode |-> "meeting-not-found",
                           error |-> "appEvents.meetingDoesNotExist"])>>
    ELSE IF code = MEETING_NOT_START
    THEN <<OnMeetingLeave([errorCode |-> "meeting-not-started",
                           error |-> "appEvents.meetingNotStarted"])>>
    ELSE IF code = WRONG_MEETING_PASSWORD
    THEN <<UpdateSpotTvState(Patch({"needPassword"}, [needPassword |-> TRUE]))>>
    ELSE <<OnMeetingLeave([errorCode |-> "failed-to-join",
                           error |-> "appEvents.meetingJoinFailed"])>>

\* the if-chain of case events.MEETING_JOIN_FAILED
JoinFailedEffects(code) ==
    IF code = FAIL \/ code = ERROR_NOT_EXIST
    THEN <<OnMeetingLeave([errorCode |-> "meeting-not-found",
                           error |-> "appEvents.meetingDoesNotExist"])>>
    ELSE IF code = MEETING_NOT_START
    THEN <<OnMeetingLeave([errorCode |-> "meeting-not-started",
                           error |-> "appEvents.meetingNotStarted"])>>
    ELSE IF code = WRONG_MEETING_PASSWORD
    THEN <<UpdateSpotTvState(Patch({"needPassword"}, [needPassword |-> TRUE]))>>
    ELSE <<OnMeetingLeave([errorCode |-> "failed-to-join",
                           error |-> "appEvents.meetingJoinFailed"])>>

\* case events.MEETING_JOIN_FAILED
MeetingJoinFailedResult(data) ==
    Result(JoinFailedEffects(zoomErrorCode(data)), FALSE)

\* MEETING_JOIN_SUCCEEDED that leaves needPassword as it is
MeetingJoinSucceededResult_KeepsNeedPassword ==
    Result(<<OnMeetingStart,
             UpdateSpotTvState(Patch({"inMeeting", "meetingDisplayName"},
                 [inMeeting |-> meetingUrl,
                  meetingDisplayName |-> meetingDisplayName])),
             Call("zoomApiHealthCheck.start", <<>>)>>, FALSE)

\* case events.MEETING_JOIN_SUCCEEDED
MeetingJoinSucceededResult ==
    Result(<<OnMeetingStart,
             UpdateSpotTvState(Patch({"inMeeting", "meetingDisplayName", "needPassword"},
                 [inMeeting |-> meetingUrl,
                  meetingDisplayName |-> meetingDisplayName,
                  needPassword |-> FALSE])),
             Call("zoomApiHealthCheck.start", <<>>)>>, FALSE)

\* MEETING_ENDED that falls through into a second onMeetingLeave
MeetingEndedResult_LeavesTwice ==
    Result(<<OnMeetingLeave(EmptyPayload), OnMeetingLeave(EmptyPayload)>>, FALSE)

\* case events.MEETING_ENDED
MeetingEndedResult ==
    Result(<<OnMeetingLeave(EmptyPayload)>>, FALSE)

\* READY that joins under the display name of the meeting
ReadyResult_UsesMeetingDisplayName ==
    Result(<<Call("goToMeeting",
                  <<parseMeetingName(meetingUrl), "", meetingDisplayName>>)>>, FALSE)

\* case events.READY
ReadyResult ==
    Result(<<Call("goToMeeting",
                  <<parseMeetingName(meetingUrl), "", displayName>>)>>, FALSE)

\* case events.AUDIO_MUTE_UPDATED; data.muted of an undefined data is a TypeError
AudioMuteUpdatedResult(data) ==
    IF ~data.defined THEN Result(<<>>, TRUE)
    ELSE Result(<<UpdateSpotTvState(Patch({"audioMuted"}, [audioMuted |-> data.muted]))>>,
                FALSE)

\* VIDEO_MUTE_UPDATED that writes the field of the audio case
VideoMuteUpdatedResult_WritesAudio(data) ==
    IF ~data.defined THEN Result(<<>>, TRUE)
    ELSE Result(<<UpdateSpotTvState(Patch({"audioMuted"}, [audioMuted |-> data.muted]))>>,
                FALSE)

\* case events.VIDEO_MUTE_UPDATED
VideoMuteUpdatedResult(data) ==
    IF ~data.defined THEN Result(<<>>, TRUE)
    ELSE Result(<<UpdateSpotTvState(Patch({"videoMuted"}, [videoMuted |-> data.muted]))>>,
                FALSE)

\* the switch of _onMeetingUpdateReceived
MeetingUpdateResult(type, data) ==
    CASE type = AUDIO_MUTE_UPDATED -> AudioMuteUpdatedResult(data)
      [] type = MEETING_ENDED -> MeetingEndedResult
      [] type = MEETING_JOIN_FAILED -> MeetingJoinFailedResult(data)
      [] type = MEETING_JOIN_SUCCEEDED -> MeetingJoinSucceededResult
      [] type = READY -> ReadyResult
      [] type = VIDEO_MUTE_UPDATED -> VideoMuteUpdatedResult(data)
      [] OTHER -> Result(<<>>, FALSE)

----------------------------------------------------------------------------
(* Lifecycle *)

\* componentDidMount that never constructs the health check
ComponentDidMountResult_NoHealthCheck ==
    Result(<<Call("new ZoomIframeManager", <<>>),
             Call("addListener", <<>>),
             Call("load", <<>>)>>, FALSE)

\* componentDidMount that starts the health check it has constructed
ComponentDidMountResult_StartsHealthCheck ==
    Result(<<Call("new ZoomIframeManager", <<>>),
             Call("addListener", <<>>),
             Call("load", <<>>),
             Call("new ApiHealthCheck", <<>>),
             Call("zoomApiHealthCheck.start", <<>>)>>, FALSE)

\* componentDidMount
ComponentDidMountResult ==
    Result(<<Call("new ZoomIframeManager", <<>>),
             Call("addListener", <<>>),
             Call("load", <<>>),
             Call("new ApiHealthCheck", <<>>)>>, FALSE)

\* componentWillUnmount whose reset leaves out inMeeting and needPassword
ComponentWillUnmountResult_PartialReset ==
    Result(<<Call("zoomApiHealthCheck.stop", <<>>),
             Call("destroy", <<>>),
             Call("removeListener", <<>>),
             UpdateSpotTvState(Patch({"audioMuted", "kicked", "meetingDisplayName",
                                      "videoMuted"}, DefaultSpotTvState))>>,
           FALSE)

\* componentWillUnmount that does not remove its command listener
ComponentWillUnmountResult_KeepsListener ==
    Result(<<Call("zoomApiHealthCheck.stop", <<>>),
             Call("destroy", <<>>),
             UpdateSpotTvState(Patch(DOMAIN DefaultSpotTvState, DefaultSpotTvState))>>,
           FALSE)

\* componentWillUnmount
ComponentWillUnmountResult ==
    Result(<<Call("zoomApiHealthCheck.stop", <<>>),
             Call("destroy", <<>>),
             Call("removeListener", <<>>),
             UpdateSpotTvState(Patch(DOMAIN DefaultSpotTvState, DefaultSpotTvState))>>,
           FALSE)

----------------------------------------------------------------------------
(* The collaborators: what a call does to the state *)

\* the session state after the updateSpotTvState calls of an effect list
RECURSIVE SpotTvStateAfter(_, _)
SpotTvStateAfter(state, effects) ==
    IF effects = <<>> THEN state
    ELSE SpotTvStateAfter(
            IF Head(effects).op = "updateSpotTvState"
            THEN ApplyPatch(state, Head(effects).patch)
            ELSE state,
            Tail(effects))

\* ApiHealthCheck: constructed not started, start() runs it, stop() stops it
\* whatever its state
RECURSIVE HealthCheckAfter(_, _)
HealthCheckAfter(h, effects) ==
    IF effects = <<>> THEN h
    ELSE HealthCheckAfter(
            CASE Head(effects).op = "new ApiHealthCheck" -> "notStarted"
              [] Head(effects).op = "zoomApiHealthCheck.start" -> "running"
              [] Head(effects).op = "zoomApiHealthCheck.stop" -> "stopped"
              [] OTHER -> h,
            Tail(effects))

\* ZoomIframeManager: constructed, loaded, destroyed
RECURSIVE IframeManagerAfter(_, _)
IframeManagerAfter(m, effects) ==
    IF effects = <<>> THEN m
    ELSE IframeManagerAfter(
            CASE Head(effects).op = "new ZoomIframeManager" -> "created"
              [] Head(effects).op = "load" -> "loaded"
              [] Head(effects).op = "destroy" -> "destroyed"
              [] OTHER -> m,
            Tail(effects))

\* remoteControlServer: addListener / removeListener of _onMeetingCommand
RECURSIVE SubscribedAfter(_, _)
SubscribedAfter(b, effects) ==
    IF effects = <<>> THEN b
    ELSE SubscribedAfter(
            CASE Head(effects).op = "addListener" -> TRUE
              [] Head(effects).op = "removeListener" -> FALSE
              [] OTHER -> b,
            Tail(effects))

\* the number of calls of op in an effect list
RECURSIVE Calls(_, _)
Calls(op, effects) ==
    IF effects = <<>> THEN 0
    ELSE (IF Head(effects).op = op THEN 1 ELSE 0) + Calls(op, Tail(effects))

\* the ops of an effect list, in order
Ops(effects) == [i \in 1..Len(effects) |-> effects[i].op]

----------------------------------------------------------------------------
(* The state machine *)

Handler(kind, type, cdata, edata) ==
    [kind |-> kind, type |-> type, cdata |-> cdata, edata |-> edata]

\* the state after the constructor
Init ==
    /\ phase = "constructed"
    /\ zoomIframeManager = "null"
    /\ zoomApiHealthCheck = "undefined"
    /\ subscribed = FALSE
    /\ spotTvState = DefaultSpotTvState
    /\ last = Handler("constructor", "", NoCommandData, NoEventData)
    /\ trace = <<>>
    /\ threw = FALSE
    /\ leaveCount = 0
    /\ healthErrorCount = 0

\* one handler runs to its end: its calls take effect in program order
Run(handler, result, health) ==
    /\ leaveCount + Calls("onMeetingLeave", result.effects) <= MaxLeaves
    /\ last' = handler
    /\ trace' = result.effects
    /\ threw' = result.throws
    /\ spotTvState' = SpotTvStateAfter(spotTvState, result.effects)
    /\ zoomApiHealthCheck' = HealthCheckAfter(health, result.effects)
    /\ zoomIframeManager' = IframeManagerAfter(zoomIframeManager, result.effects)
    /\ subscribed' = SubscribedAfter(subscribed, result.effects)
    /\ leaveCount' = leaveCount + Calls("onMeetingLeave", result.effects)

componentDidMount ==
    /\ phase = "constructed"
    /\ phase' = "mounted"
    /\ UNCHANGED healthErrorCount
    /\ Run(Handler("componentDidMount", "", NoCommandData, NoEventData),
           ComponentDidMountResult, zoomApiHealthCheck)

componentWillUnmount ==
    /\ phase = "mounted"
    /\ phase' = "unmounted"
    /\ UNCHANGED healthErrorCount
    /\ Run(Handler("componentWillUnmount", "", NoCommandData, NoEventData),
           ComponentWillUnmountResult, zoomApiHealthCheck)

\* the commands a Spot-Remote can send
Commands ==
    {<<HANG_UP, d>> : d \in {NoCommandData} \cup
        {CommandData(TRUE, f, "undefined", "undefined") : f \in {"true", "false", "undefined"}}}
    \cup {<<t, d>> : t \in {SET_AUDIO_MUTE, SET_VIDEO_MUTE},
                     d \in {NoCommandData} \cup
        {CommandData(TRUE, "undefined", m, "undefined") : m \in {"true", "false"}}}
    \cup {<<SUBMIT_PASSWORD, d>> : d \in {NoCommandData} \cup
        {CommandData(TRUE, "undefined", "undefined", p) : p \in {"", "secret"}}}
    \cup {<<OTHER_COMMAND, NoCommandData>>}

\* the remote control server delivers a command to its listener
onMeetingCommand ==
    /\ subscribed
    /\ UNCHANGED <<phase, healthErrorCount>>
    /\ \E c \in Commands :
          Run(Handler("_onMeetingCommand", c[1], c[2], NoEventData),
              MeetingCommandResult(c[1], c[2]), zoomApiHealthCheck)

\* the events the Zoom iFrame can send
Events ==
    {<<t, d>> : t \in {AUDIO_MUTE_UPDATED, VIDEO_MUTE_UPDATED},
                d \in {NoEventData} \cup
                      {EventData(TRUE, FALSE, "undefined", m) : m \in BOOLEAN}}
    \cup {<<MEETING_JOIN_FAILED, d>> : d \in
            {NoEventData, EventData(TRUE, FALSE, "undefined", FALSE)} \cup
            {EventData(TRUE, TRUE, c, FALSE) :
                c \in {FAIL, ERROR_NOT_EXIST, MEETING_NOT_START,
                       WRONG_MEETING_PASSWORD, OTHER_CODE, "undefined"}}}
    \cup {<<t, NoEventData>> :
            t \in {MEETING_ENDED, MEETING_JOIN_SUCCEEDED, READY, OTHER_EVENT}}

\* the loaded iFrame manager reports an update of the meeting
onMeetingUpdateReceived ==
    /\ zoomIframeManager = "loaded"
    /\ UNCHANGED <<phase, healthErrorCount>>
    /\ \E e \in Events :
          Run(Handler("_onMeetingUpdateReceived", e[1], NoCommandData, e[2]),
              MeetingUpdateResult(e[1], e[2]), zoomApiHealthCheck)

\* a ping of the running health check fails: the check stops polling and
\* reports the failure once
onApiHealthCheckError ==
    /\ zoomApiHealthCheck = "running"
    /\ healthErrorCount < MaxHealthErrors
    /\ healthErrorCount' = healthErrorCount + 1
    /\ UNCHANGED phase
    /\ Run(Handler("_onApiHealthCheckError", "", NoCommandData, NoEventData),
           ApiHealthCheckErrorResult, "stopped")

Next ==
    \/ componentDidMount
    \/ componentWillUnmount
    \/ onMeetingCommand
    \/ onMeetingUpdateReceived
    \/ onApiHealthCheckError

Spec == Init /\ [][Next]_vars

----------------------------------------------------------------------------
(* Properties *)

\* h is a run of _onMeetingUpdateReceived for an event of this type
IsEvent(h, type) == h.kind = "_onMeetingUpdateReceived" /\ h.type = type

\* h is a run of _onMeetingCommand for a command of this type
IsCommand(h, type) == h.kind = "_onMeetingCommand" /\ h.type = type

\* h is a MEETING_JOIN_FAILED event that carries the wrong-password code
IsWrongPassword(h) ==
    /\ IsEvent(h, MEETING_JOIN_FAILED)
    /\ h.edata.defined /\ h.edata.hasError
    /\ h.edata.code = WRONG_MEETING_PASSWORD

\* C1: handling a MEETING_JOIN_FAILED event with the wrong-password code sets
\* needPassword to true and changes no other field of the session state,
\* does not call onMeetingLeave, and leaves the component mounted, listening
\* for commands, with its iFrame manager and health check as they were.
C1_WrongPasswordAsksForPassword ==
    [][IsWrongPassword(last') =>
        /\ spotTvState' = [spotTvState EXCEPT !.needPassword = TRUE]
        /\ Calls("onMeetingLeave", trace') = 0
        /\ leaveCount' = leaveCount
        /\ ~threw'
        /\ phase' = "mounted" /\ subscribed'
        /\ UNCHANGED <<zoomIframeManager, zoomApiHealthCheck>>]_vars

C1_Witness ==
    /\ IsWrongPassword(last)
    /\ spotTvState.needPassword
    /\ leaveCount = 0
    /\ subscribed

\* C2: handling a MEETING_JOIN_FAILED event with any code but the
\* wrong-password code (a missing code included) makes exactly one call, a
\* call of onMeetingLeave with an errorCode and the error message that goes
\* with it, and leaves the session state as it was.
C2_OtherJoinFailureTerminatesOnce ==
    [][(IsEvent(last', MEETING_JOIN_FAILED) /\ ~IsWrongPassword(last')) =>
        /\ Ops(trace') = <<"onMeetingLeave">>
        /\ leaveCount' = leaveCount + 1
        /\ trace'[1].payload \in
              {[errorCode |-> "meeting-not-found",
                error |-> "appEvents.meetingDoesNotExist"],
               [errorCode |-> "meeting-not-started",
                error |-> "appEvents.meetingNotStarted"],
               [errorCode |-> "failed-to-join",
                error |-> "appEvents.meetingJoinFailed"]}
        /\ (trace'[1].payload.errorCode = "failed-to-join") =
              (~last'.edata.defined \/ ~last'.edata.hasError
               \/ last'.edata.code \in {OTHER_CODE, "undefined"})
        /\ spotTvState' = spotTvState]_vars

C2_Witness ==
    /\ IsEvent(last, MEETING_JOIN_FAILED)
    /\ ~last.edata.hasError
    /\ Ops(trace) = <<"onMeetingLeave">>
    /\ leaveCount = 1

\* C3 as stated: the errorCode reported for a code outside the table is
\* "join-failed".
C3_AsStated ==
    IsEvent(last, MEETING_JOIN_FAILED) =>
        LET code == IF last.edata.defined /\ last.edata.hasError
                    THEN last.edata.code ELSE "undefined"
        IN  code \notin {FAIL, ERROR_NOT_EXIST, MEETING_NOT_START,
                         WRONG_MEETING_PASSWORD} =>
                /\ Calls("onMeetingLeave", trace) = 1
                /\ trace[1].payload.errorCode = "join-failed"

\* C3 (amended): the outcome of a MEETING_JOIN_FAILED event is a fixed
\* function of its error code: FAIL and ERROR_NOT_EXIST report
\* "meeting-not-found", MEETING_NOT_START reports "meeting-not-started",
\* every other code but WRONG_MEETING_PASSWORD (unknown or absent) reports
\* "failed-to-join", each as the errorCode of the one onMeetingLeave call;
\* WRONG_MEETING_PASSWORD is the wrong-password outcome, which reports
\* nothing and asks for the password.
C3_ClassificationTable ==
    IsEvent(last, MEETING_JOIN_FAILED) =>
        LET code == IF last.edata.defined /\ last.edata.hasError
                    THEN last.edata.code ELSE "undefined"
        IN  IF code = WRONG_MEETING_PASSWORD
            THEN /\ Calls("onMeetingLeave", trace) = 0
                 /\ Ops(trace) = <<"updateSpotTvState">>
                 /\ trace[1].patch.fields = {"needPassword"}
                 /\ trace[1].patch.values.needPassword
            ELSE /\ Calls("onMeetingLeave", trace) = 1
                 /\ trace[1].payload.errorCode =
                       CASE code \in {FAIL, ERROR_NOT_EXIST} -> "meeting-not-found"
                         [] code = MEETING_NOT_START -> "meeting-not-started"
                         [] OTHER -> "failed-to-join"

C3_Witness ==
    /\ IsEvent(last, MEETING_JOIN_FAILED)
    /\ last.edata.hasError /\ last.edata.code = OTHER_CODE
    /\ trace[1].payload.errorCode = "failed-to-join"

\* C4: handling a MEETING_JOIN_SUCCEEDED event sets inMeeting to the meeting
\* URL of the props, meetingDisplayName to that of the props and needPassword
\* to false, leaves the other fields, calls onMeetingStart once, starts the
\* health check, and does not call onMeetingLeave.
C4_JoinSucceeded ==
    [][IsEvent(last', MEETING_JOIN_SUCCEEDED) =>
        /\ spotTvState' = [spotTvState EXCEPT !.inMeeting = meetingUrl,
                                              !.meetingDisplayName = meetingDisplayName,
                                              !.needPassword = FALSE]
        /\ Calls("onMeetingStart", trace') = 1
        /\ Calls("zoomApiHealthCheck.start", trace') = 1
        /\ zoomApiHealthCheck' = "running"
        /\ Calls("onMeetingLeave", trace') = 0
        /\ leaveCount' = leaveCount]_vars

C4_Witness ==
    /\ IsEvent(last, MEETING_JOIN_SUCCEEDED)
    /\ spotTvState.inMeeting = meetingUrl
    /\ spotTvState.meetingDisplayName = meetingDisplayName
    /\ zoomApiHealthCheck = "running"

\* C5: the health check gets to run only in a step that handles a
\* MEETING_JOIN_SUCCEEDED event (no command, no other event and no lifecycle
\* step starts it), and a health-check failure is reported only while it runs.
C5_HealthCheckStartsOnlyOnJoin ==
    [][/\ (zoomApiHealthCheck' = "running" /\ zoomApiHealthCheck # "running")
            => IsEvent(last', MEETING_JOIN_SUCCEEDED)
       /\ (Calls("zoomApiHealthCheck.start", trace') > 0)
            => IsEvent(last', MEETING_JOIN_SUCCEEDED)
       /\ (last'.kind = "_onApiHealthCheckError" /\ last # last')
            => zoomApiHealthCheck = "running"]_vars

C5_Witness ==
    /\ zoomApiHealthCheck = "running"
    /\ last.kind = "_onMeetingCommand"
    /\ spotTvState.inMeeting = meetingUrl

\* C6: a HANG_UP command whose data has a true skipFeedback makes one call,
\* onMeetingLeave({}), and none of the iFrame manager; a HANG_UP command whose
\* data has no true skipFeedback makes one call, hangUp of the iFrame manager,
\* and none of onMeetingLeave.
C6_HangUp ==
    [][(IsCommand(last', HANG_UP) /\ last'.cdata.defined) =>
        IF last'.cdata.skipFeedback = "true"
        THEN /\ Ops(trace') = <<"onMeetingLeave">>
             /\ trace'[1].payload = EmptyPayload
             /\ leaveCount' = leaveCount + 1
        ELSE /\ Ops(trace') = <<"hangUp">>
             /\ leaveCount' = leaveCount]_vars

C6_Witness ==
    /\ IsCommand(last, HANG_UP)
    /\ last.cdata.defined /\ last.cdata.skipFeedback = "true"
    /\ Ops(trace) = <<"onMeetingLeave">>

\* C7: a SUBMIT_PASSWORD command makes two calls, first updateSpotTvState
\* with needPassword false and then submitPassword of the iFrame manager with
\* the data of the command, whatever needPassword was; only needPassword
\* changes.
C7_SubmitPassword ==
    [][IsCommand(last', SUBMIT_PASSWORD) =>
        /\ Ops(trace') = <<"updateSpotTvState", "submitPassword">>
        /\ trace'[1].patch.fields = {"needPassword"}
        /\ ~trace'[1].patch.values.needPassword
        /\ trace'[2].args = <<last'.cdata.password>>
        /\ spotTvState' = [spotTvState EXCEPT !.needPassword = FALSE]
        /\ ~threw']_vars

C7_Witness ==
    /\ IsCommand(last, SUBMIT_PASSWORD)
    /\ last.cdata.password = "secret"
    /\ Ops(trace) = <<"updateSpotTvState", "submitPassword">>
    /\ ~spotTvState.needPassword

\* C8: once componentWillUnmount has run, from whatever state, the session
\* state is the default one, and the step raised no error (also when the
\* health check had never been started).
C8_UnmountResetsState ==
    phase = "unmounted" =>
        /\ spotTvState = [audioMuted |-> FALSE, inMeeting |-> "", kicked |-> FALSE,
                          meetingDisplayName |-> "", needPassword |-> FALSE,
                          videoMuted |-> FALSE]
        /\ ~threw

C8_Witness ==
    /\ phase = "unmounted"
    /\ last.kind = "componentWillUnmount"
    /\ spotTvState.inMeeting = "" /\ ~spotTvState.needPassword
    /\ leaveCount = 0

\* C9: once componentWillUnmount has run, the health check is stopped and
\* _onMeetingCommand is no longer a listener, and from then on no
\* health-check failure and no remote command is handled: nothing calls
\* onMeetingLeave or the iFrame manager or changes the session state.
C9_NothingAfterUnmount ==
    [][/\ phase' = "unmounted" =>
            (zoomApiHealthCheck' = "stopped" /\ ~subscribed'
             /\ zoomIframeManager' = "destroyed")
       /\ phase = "unmounted" =>
            (/\ last' = last /\ trace' = trace
             /\ spotTvState' = spotTvState /\ leaveCount' = leaveCount)]_vars

C9_Witness ==
    /\ phase = "unmounted"
    /\ zoomApiHealthCheck = "stopped" /\ ~subscribed
    /\ leaveCount > 0

\* C10: a non-empty inMeeting implies that needPassword is false.
C10_InMeetingImpliesNoPassword ==
    spotTvState.inMeeting # "" => ~spotTvState.needPassword

\* C11: while the component is mounted, audioMuted changes only in a step
\* that handles AUDIO_MUTE_UPDATED and videoMuted only in a step that handles
\* VIDEO_MUTE_UPDATED; no command changes either; a SET_AUDIO_MUTE or
\* SET_VIDEO_MUTE command that carries a value makes one call, setAudioMute or
\* setVideoMute of the iFrame manager with that value, and leaves the whole
\* session state as it was.
C11_MuteFieldsFollowProviderOnly ==
    [][/\ (phase' = "mounted" /\ spotTvState'.audioMuted # spotTvState.audioMuted)
            => IsEvent(last', AUDIO_MUTE_UPDATED)
       /\ (phase' = "mounted" /\ spotTvState'.videoMuted # spotTvState.videoMuted)
            => IsEvent(last', VIDEO_MUTE_UPDATED)
       /\ (last'.kind = "_onMeetingCommand" /\ last'.type # SUBMIT_PASSWORD)
            => spotTvState' = spotTvState
       /\ last'.kind = "_onMeetingCommand"
            => /\ spotTvState'.audioMuted = spotTvState.audioMuted
               /\ spotTvState'.videoMuted = spotTvState.videoMuted
       /\ (IsCommand(last', SET_AUDIO_MUTE) /\ last'.cdata.defined)
            => trace' = <<Call("setAudioMute", <<last'.cdata.mute>>)>>
       /\ (IsCommand(last', SET_VIDEO_MUTE) /\ last'.cdata.defined)
            => trace' = <<Call("setVideoMute", <<last'.cdata.mute>>)>>]_vars

C11_Witness ==
    /\ IsCommand(last, SET_AUDIO_MUTE)
    /\ last.cdata.mute = "true"
    /\ Ops(trace) = <<"setAudioMute">>
    /\ ~spotTvState.audioMuted

\* C12: handling AUDIO_MUTE_UPDATED with a boolean muted makes one call,
\* updateSpotTvState, after which audioMuted is that boolean and every other
\* field is as it was; VIDEO_MUTE_UPDATED does the same for videoMuted.
C12_MuteUpdatedWritesOneField ==
    [][/\ (IsEvent(last', AUDIO_MUTE_UPDATED) /\ last'.edata.defined)
            => /\ spotTvState' =
                     [spotTvState EXCEPT !.audioMuted = last'.edata.muted]
               /\ Ops(trace') = <<"updateSpotTvState">>
               /\ leaveCount' = leaveCount
       /\ (IsEvent(last', VIDEO_MUTE_UPDATED) /\ last'.edata.defined)
            => /\ spotTvState' =
                     [spotTvState EXCEPT !.videoMuted = last'.edata.muted]
               /\ Ops(trace') = <<"updateSpotTvState">>
               /\ leaveCount' = leaveCount]_vars

C12_Witness ==
    /\ IsEvent(last, VIDEO_MUTE_UPDATED)
    /\ last.edata.defined /\ last.edata.muted
    /\ spotTvState.videoMuted /\ ~spotTvState.audioMuted

\* C13: handling READY makes one call, goToMeeting with the meeting name of
\* the meeting URL, an empty password and the display name of the props; no
\* other handler calls goToMeeting.
C13_ReadyJoins ==
    /\ IsEvent(last, READY) =>
          /\ Ops(trace) = <<"goToMeeting">>
          /\ trace[1].args = <<"my-room", "", displayName>>
    /\ Calls("goToMeeting", trace) > 0 => IsEvent(last, READY)

C13_Witness ==
    /\ IsEvent(last, READY)
    /\ Calls("goToMeeting", trace) = 1
    /\ spotTvState.inMeeting = ""

\* C14: a command of an unknown type and an event of an unknown type make no
\* call at all and raise no error: the session state, the health check and
\* the count of onMeetingLeave calls are as they were.
C14_UnknownTypesIgnored ==
    [][(IsCommand(last', OTHER_COMMAND) \/ IsEvent(last', OTHER_EVENT)) =>
        /\ trace' = <<>>
        /\ ~threw'
        /\ UNCHANGED <<spotTvState, zoomApiHealthCheck, zoomIframeManager,
                       subscribed, leaveCount, healthErrorCount>>]_vars

C14_Witness ==
    /\ IsCommand(last, OTHER_COMMAND)
    /\ trace = <<>>
    /\ spotTvState.needPassword

\* C15: the health-check failure handler runs at most once between
\* componentDidMount and componentWillUnmount, also when
\* MEETING_JOIN_SUCCEEDED is handled more than once.
C15_AtMostOneHealthFailureReport ==
    healthErrorCount <= 1

\* C16: a MEETING_ENDED event, a HANG_UP command with a true skipFeedback and
\* a health-check failure each make one call, onMeetingLeave with an object
\* that has neither errorCode nor error.
C16_PlainTerminationsCarryNoError ==
    (\/ IsEvent(last, MEETING_ENDED)
     \/ (IsCommand(last, HANG_UP) /\ last.cdata.defined
         /\ last.cdata.skipFeedback = "true")
     \/ last.kind = "_onApiHealthCheckError")
    => /\ Ops(trace) = <<"onMeetingLeave">>
       /\ trace[1].payload.errorCode = "undefined"
       /\ trace[1].payload.error = "undefined"

C16_Witness ==
    /\ last.kind = "_onApiHealthCheckError"
    /\ trace = <<OnMeetingLeave(EmptyPayload)>>
    /\ zoomApiHealthCheck = "stopped"

\* C17: no run of _onMeetingCommand ends with an error, whatever the type
\* and the data of the command (a command without data included).
C17_CommandHandlerNeverThrows ==
    last.kind = "_onMeetingCommand" => ~threw

\* C18 as stated: componentDidMount constructs the iFrame manager, constructs
\* the health check, adds the command listener and then loads the iFrame
\* manager.
C18_AsStated ==
    last.kind = "componentDidMount" =>
        Ops(trace) = <<"new ZoomIframeManager", "new ApiHealthCheck",
                       "addListener", "load">>

\* C18 (amended): componentDidMount constructs the iFrame manager, adds the
\* command listener, loads the iFrame manager and then constructs the health
\* check, in this order; the health check exists in every state in which
\* the loaded iFrame manager can report an event or a command can arrive.
C18_MountOrder ==
    /\ last.kind = "componentDidMount" =>
          Ops(trace) = <<"new ZoomIframeManager", "addListener", "load",
                         "new ApiHealthCheck">>
    /\ (zoomIframeManager = "loaded" \/ subscribed) =>
          zoomApiHealthCheck \in {"notStarted", "running", "stopped"}

C18_Witness ==
    /\ last.kind = "componentDidMount"
    /\ zoomIframeManager = "loaded"
    /\ zoomApiHealthCheck = "notStarted"
    /\ subscribed

\* C19: handling a wrong-password MEETING_JOIN_FAILED calls neither
\* goToMeeting nor submitPassword; each SUBMIT_PASSWORD command makes exactly
\* one submitPassword call; and the password forwarded by a SUBMIT_PASSWORD
\* that arrives while needPassword is set is not empty.
C19_RetryWithNonEmptyPassword ==
    [][/\ IsWrongPassword(last') =>
            Calls("goToMeeting", trace') + Calls("submitPassword", trace') = 0
       /\ IsCommand(last', SUBMIT_PASSWORD) =>
            Calls("submitPassword", trace') = 1
       /\ (spotTvState.needPassword /\ IsCommand(last', SUBMIT_PASSWORD)) =>
            trace'[Len(trace')].args[1] \notin {"", "undefined"}]_vars

\* C20 as stated: onMeetingLeave is called at most once between
\* componentDidMount and componentWillUnmount.
C20_AsStated ==
    leaveCount <= 1

\* C20 (amended): each handled trigger calls onMeetingLeave at most once: a
\* step calls it exactly once if it handles MEETING_ENDED, a
\* MEETING_JOIN_FAILED without the wrong-password code, a HANG_UP whose data
\* has a true skipFeedback, or a health-check failure, and not at all
\* otherwise; the calls of several triggers add up.
C20_OneLeavePerTrigger ==
    [][leaveCount' - leaveCount =
          IF \/ IsEvent(last', MEETING_ENDED)
             \/ (IsEvent(last', MEETING_JOIN_FAILED) /\ ~IsWrongPassword(last'))
             \/ (IsCommand(last', HANG_UP) /\ last'.cdata.defined
                 /\ last'.cdata.skipFeedback = "true")
             \/ last'.kind = "_onApiHealthCheckError"
          THEN 1 ELSE 0]_vars

C20_Witness ==
    /\ leaveCount = 2
    /\ IsEvent(last, MEETING_ENDED)
    /\ phase = "mounted"

====
